---- MODULE Spec2Model ----
(***************************************************************************)
(* A model of HashBidiMap (src/src/lib.rs): a bidirectional map kept as    *)
(* two hash tables, left_to_right : Rc<K1> -> Rc<K2> and                   *)
(* right_to_left : Rc<K2> -> Rc<K1>.  An Rc is modelled as a record of its *)
(* allocation (ptr) and the value it holds (val); hash tables compare keys *)
(* by val, as Eq + Hash on Rc<T> do.                                       *)
(***************************************************************************)
EXTENDS Integers, Sequences, FiniteSets, TLC

\* ---------------------------------------------------------------- bounds
NumK1 == 3
NumK2 == 3
MaxInserts == 3
MaxExtendLen == 2
MaxViewInserts == 2

K1 == 1..NumK1
K2 == {10 + i : i \in 1..NumK2}
Pairs == K1 \X K2

RECURSIVE SeqsUpTo(_)
SeqsUpTo(n) == IF n = 0 THEN {<<>>}
               ELSE LET shorter == SeqsUpTo(n - 1)
                    IN  shorter \cup {Append(s, p) : s \in {t \in shorter : Len(t) = n - 1}, p \in Pairs}

\* the sequences of pairs that extend is called with, by their greatest length
Iters == [n \in 0..MaxExtendLen |-> SeqsUpTo(n)]

Min(a, b) == IF a < b THEN a ELSE b

\* ------------------------------------------------------- Option and Rc
None == <<>>
Some(x) == <<x>>

\* Rc::new(v): the n-th allocation, holding v
Rc(p, v) == [ptr |-> p, val |-> v]

\* Deref::deref mapped over an Option<&Rc<T>>
MapDeref(o) == IF o = None THEN None ELSE Some(o[1].val)

\* ------------------------------------------------- std HashMap, as used
\* a table is a set of entries [key |-> Rc, value |-> Rc], keys unique by val
HGet(table, k) ==
    IF \E e \in table : e.key.val = k
    THEN Some((CHOOSE e \in table : e.key.val = k).value)
    ELSE None

HRemove(table, k) == {e \in table : e.key.val # k}

\* HashMap::insert keeps the stored key object when the key is already present
HInsert(table, k, v) ==
    IF \E e \in table : e.key.val = k.val
    THEN {IF e.key.val = k.val THEN [key |-> e.key, value |-> v] ELSE e : e \in table}
    ELSE table \cup {[key |-> k, value |-> v]}

HLen(table) == Cardinality(table)

\* ------------------------------------------------------- HashBidiMap
new == [left_to_right |-> {}, right_to_left |-> {}]

\* Step1 without the removal of line 77
Step1_keepForward(m, k1, k2) == m

\* Step1 that keeps the entry of kk1 and removes the other forward entries
Step1_removeOthers(m, k1, k2) ==
    LET kk1 == HGet(m.right_to_left, k2)
    IN  IF kk1 # None
        THEN [m EXCEPT !.left_to_right = {e \in @ : e.key.val = kk1[1].val}]
        ELSE m

\* lines 76-78: the first key that owns k2 loses its forward entry
Step1(m, k1, k2) ==
    LET kk1 == HGet(m.right_to_left, k2)
    IN  IF kk1 # None
        THEN [m EXCEPT !.left_to_right = HRemove(@, kk1[1].val)]
        ELSE m

\* Step2 without the removal of line 81
Step2_keepReverse(m, k1, k2) == m

\* lines 80-82: the second key that k1 owns loses its reverse entry
Step2(m, k1, k2) ==
    LET kk2 == HGet(m.left_to_right, k1)
    IN  IF kk2 # None
        THEN [m EXCEPT !.right_to_left = HRemove(@, kk2[1].val)]
        ELSE m

\* Step3 without the reverse insert of line 88
Step3_noReverse(m, k1, k2, n) ==
    [m EXCEPT !.left_to_right = HInsert(@, Rc(2 * n + 1, k1), Rc(2 * n + 2, k2))]

\* Step3 that installs the pair only when the second key is not held yet
Step3_ifAbsent(m, k1, k2, n) ==
    IF HGet(m.right_to_left, k2) # None THEN m
    ELSE [left_to_right |-> HInsert(m.left_to_right, Rc(2 * n + 1, k1), Rc(2 * n + 2, k2)),
          right_to_left |-> HInsert(m.right_to_left, Rc(2 * n + 2, k2), Rc(2 * n + 1, k1))]

\* lines 84-88: n is the number of inserts done before, it names the allocations
Step3(m, k1, k2, n) ==
    LET a == Rc(2 * n + 1, k1)
        b == Rc(2 * n + 2, k2)
    IN  [left_to_right |-> HInsert(m.left_to_right, a, b),
         right_to_left |-> HInsert(m.right_to_left, b, a)]

\* insert whose step 2 looks k1 up in the forward table as it was before step 1
insert_staleLookup(m, k1, k2, n) ==
    Step3([left_to_right |-> Step1(m, k1, k2).left_to_right,
           right_to_left |-> Step2(m, k1, k2).right_to_left], k1, k2, n)

\* lines 75-89
insert(m, k1, k2, n) == Step3(Step2(Step1(m, k1, k2), k1, k2), k1, k2, n)

get1(m, k2) == MapDeref(HGet(m.right_to_left, k2))
get2(m, k1) == MapDeref(HGet(m.left_to_right, k1))
len(m) == HLen(m.left_to_right)

\* extend that takes the pairs from the back of the iterator
RECURSIVE extend_reversed(_, _, _)
extend_reversed(m, iter, n) ==
    IF iter = <<>> THEN m
    ELSE extend_reversed(insert(m, iter[Len(iter)][1], iter[Len(iter)][2], n),
                         SubSeq(iter, 1, Len(iter) - 1), n + 1)

\* lines 107-113: the for loop, taking the pairs from the front of the iterator
RECURSIVE extend(_, _, _)
extend(m, iter, n) ==
    IF iter = <<>> THEN m
    ELSE extend(insert(m, Head(iter)[1], Head(iter)[2], n), Tail(iter), n + 1)

\* ------------------------------------------------- views and results
\* what a call gives back: a value, or the panic that ends the program
Ok(x) == [ok |-> TRUE, v |-> x]
Panic == [ok |-> FALSE]

\* lines 49-55: a view borrows the map, it holds nothing else
as_map(m) == [bidi |-> m]
as_inv_map(m) == [bidi |-> m]

\* LeftMap::get that asks the reverse table
LeftMap_get_inverse(view, k) == get1(view.bidi, k)

\* lines 20-24
LeftMap_get(view, k) == get2(view.bidi, k)

\* lines 26-30
RightMap_get(view, k) == get1(view.bidi, k)

\* expect that gives the absent result back instead of panicking
expect_lenient(o) == Ok(o)

\* Option::expect("Oops!") of lines 36 and 44
expect(o) == IF o = None THEN Panic ELSE Ok(o[1])

\* lines 32-38
LeftMap_index(view, index) == expect(LeftMap_get(view, index))

\* lines 40-46
RightMap_index(view, index) == expect(RightMap_get(view, index))

\* ------------------------------------------------------------- state
VARIABLES
    left_to_right,   \* HashBidiMap.left_to_right
    right_to_left,   \* HashBidiMap.right_to_left
    inserts,         \* number of insert calls completed (names the Rc allocations)
    call,            \* the last completed call: [op, args]
    pre,             \* the map as it was when that call started
    ret,             \* what that call gave back
    hist             \* every pair inserted since new(), in order

vars == <<left_to_right, right_to_left, inserts, call, pre, ret, hist>>

map == [left_to_right |-> left_to_right, right_to_left |-> right_to_left]

Init ==
    /\ left_to_right = new.left_to_right
    /\ right_to_left = new.right_to_left
    /\ inserts = 0
    /\ call = [op |-> "new", args |-> <<>>]
    /\ pre = new
    /\ ret = Ok(<<>>)
    /\ hist = <<>>

Insert(k1, k2) ==
    /\ inserts < MaxInserts
    /\ LET m == insert(map, k1, k2, inserts)
       IN  /\ left_to_right' = m.left_to_right
           /\ right_to_left' = m.right_to_left
    /\ inserts' = inserts + 1
    /\ call' = [op |-> "insert", args |-> <<<<k1, k2>>>>]
    /\ pre' = map
    /\ ret' = Ok(<<>>)
    /\ hist' = Append(hist, <<k1, k2>>)

Extend(iter) ==
    /\ inserts + Len(iter) <= MaxInserts
    /\ LET m == extend(map, iter, inserts)
       IN  /\ left_to_right' = m.left_to_right
           /\ right_to_left' = m.right_to_left
    /\ inserts' = inserts + Len(iter)
    /\ call' = [op |-> "extend", args |-> iter]
    /\ pre' = map
    /\ ret' = Ok(<<>>)
    /\ hist' = hist \o iter

Next ==
    \/ \E k1 \in K1, k2 \in K2 : Insert(k1, k2)
    \/ \E iter \in Iters[Min(MaxExtendLen, MaxInserts - inserts)] : Extend(iter)

Spec == Init /\ [][Next]_vars

\* the lookups through the views; they leave the map alone, and none is made
\* once a panic has ended the program
Lookup(op, k, r) ==
    /\ ret.ok
    /\ call' = [op |-> op, args |-> <<k>>]
    /\ pre' = map
    /\ ret' = r
    /\ UNCHANGED <<left_to_right, right_to_left, inserts, hist>>

LeftGet(k) == Lookup("LeftMap::get", k, Ok(LeftMap_get(as_map(map), k)))
RightGet(k) == Lookup("RightMap::get", k, Ok(RightMap_get(as_inv_map(map), k)))
LeftIndex(k) == Lookup("LeftMap::index", k, LeftMap_index(as_map(map), k))
RightIndex(k) == Lookup("RightMap::index", k, RightMap_index(as_inv_map(map), k))

\* inserts, extends and lookups through the views; a panic ends the program
NextViews ==
    \/ \E k1 \in K1, k2 \in K2 : ret.ok /\ inserts < MaxViewInserts /\ Insert(k1, k2)
    \/ \E iter \in Iters[Min(MaxExtendLen, MaxViewInserts - inserts)] : ret.ok /\ Extend(iter)
    \/ \E k \in K1 : LeftGet(k)
    \/ \E k \in K2 : RightGet(k)
    \/ \E k \in K1 : LeftIndex(k)
    \/ \E k \in K2 : RightIndex(k)

SpecViews == Init /\ [][NextViews]_vars

\* ------------------------------------------------------------ claims
\* the arguments of the last call, when it was an insert
IsInsert == call.op = "insert"
ck1 == call.args[1][1]
ck2 == call.args[1][2]

\* C1: mirror consistency.  After any sequence of completed insert/extend
\* calls, get2(k1) = Some(k2) exactly when get1(k2) = Some(k1), and no entry
\* of either table lacks its mirror entry in the other table.
C1_MirrorConsistency ==
    /\ \A k1 \in K1, k2 \in K2 :
          (get2(map, k1) = Some(k2)) <=> (get1(map, k2) = Some(k1))
    /\ \A e \in left_to_right : get1(map, e.value.val) = Some(e.key.val)
    /\ \A e \in right_to_left : get2(map, e.value.val) = Some(e.key.val)

\* an insert took the second key of one pair while another pair stayed
C1_Witness ==
    /\ IsInsert
    /\ get1(pre, ck2) # None
    /\ get1(pre, ck2) # Some(ck1)
    /\ get2(pre, ck1) = None
    /\ len(map) = 2

\* C2: one-to-one.  The forward table never maps two first keys to the same
\* second key, and the reverse table never maps two second keys to the same
\* first key.
C2_OneToOne ==
    /\ \A e, f \in left_to_right : e.value.val = f.value.val => e.key.val = f.key.val
    /\ \A e, f \in right_to_left : e.value.val = f.value.val => e.key.val = f.key.val

\* two pairs are held after an insert that replaced the partner of its first key
C2_Witness ==
    /\ IsInsert
    /\ get2(pre, ck1) # None
    /\ get2(pre, ck1) # Some(ck2)
    /\ len(map) = 2

\* C3: insert postcondition.  Right after insert(k1, k2) returns,
\* get2(k1) = Some(k2) and get1(k2) = Some(k1), whatever was there before.
C3_InsertPost ==
    IsInsert => /\ get2(map, ck1) = Some(ck2)
                /\ get1(map, ck2) = Some(ck1)

\* the insert was made into a map where both keys had other partners
C3_Witness ==
    /\ IsInsert
    /\ \E a \in K1 \ {ck1} : get1(pre, ck2) = Some(a)
    /\ \E b \in K2 \ {ck2} : get2(pre, ck1) = Some(b)
    /\ get2(map, ck1) = Some(ck2)

\* the pair (a, b) is held by m
Present(m, a, b) == get2(m, a) = Some(b) /\ get1(m, b) = Some(a)

\* C4: overwrite by second key.  If (k1', k2) is present and insert(k1, k2)
\* is called with k1 # k1', then afterwards get1(k2) = Some(k1) and
\* get2(k1') = None.
C4_OverwriteBySecond ==
    IsInsert =>
        \A a \in K1 \ {ck1} :
            Present(pre, a, ck2) => /\ get1(map, ck2) = Some(ck1)
                                    /\ get2(map, a) = None

\* the second key was taken away from another first key
C4_Witness ==
    /\ IsInsert
    /\ \E a \in K1 \ {ck1} : Present(pre, a, ck2) /\ get2(map, a) = None

\* C5: overwrite by first key.  If (k1, k2') is present and insert(k1, k2) is
\* called with k2 # k2', then afterwards get2(k1) = Some(k2),
\* get1(k2) = Some(k1) and get1(k2') = None.
C5_OverwriteByFirst ==
    IsInsert =>
        \A b \in K2 \ {ck2} :
            Present(pre, ck1, b) => /\ get2(map, ck1) = Some(ck2)
                                    /\ get1(map, ck2) = Some(ck1)
                                    /\ get1(map, b) = None

\* the first key was given a new second key, its old one is free again
C5_Witness ==
    /\ IsInsert
    /\ \E b \in K2 \ {ck2} : Present(pre, ck1, b) /\ get1(map, b) = None

\* the pairs held by m that involve one of the first keys A or second keys B
Involving(m, A, B) ==
    {p \in Pairs : Present(m, p[1], p[2]) /\ (p[1] \in A \/ p[2] \in B)}

\* C6: double collision.  If (k1, k2') and (k1', k2) are both present with
\* k1' # k1 and k2' # k2, then after insert(k1, k2) the four old entries are
\* gone and (k1, k2) is the only pair left that involves k1, k1', k2 or k2'.
C6_DoubleCollision ==
    IsInsert =>
        \A a \in K1 \ {ck1}, b \in K2 \ {ck2} :
            (Present(pre, ck1, b) /\ Present(pre, a, ck2)) =>
                /\ get2(map, a) = None
                /\ get1(map, b) = None
                /\ get2(map, ck1) # Some(b)
                /\ get1(map, ck2) # Some(a)
                /\ \A e \in left_to_right : e.key.val # a /\ e.value.val # b
                /\ \A e \in right_to_left : e.key.val # b /\ e.value.val # a
                /\ Involving(map, {ck1, a}, {ck2, b}) = {<<ck1, ck2>>}

\* two pairs collided with the inserted one, which is the only pair left
C6_Witness ==
    /\ IsInsert
    /\ \E a \in K1 \ {ck1}, b \in K2 \ {ck2} :
          Present(pre, ck1, b) /\ Present(pre, a, ck2)
    /\ len(pre) = 2
    /\ len(map) = 1

\* a key is in use when it takes part in a pair
InUse1(m, a) == get2(m, a) # None
InUse2(m, b) == get1(m, b) # None

\* C7: size accounting.  len() is 0 on a new map; an insert of two keys that
\* are both unused raises len() by exactly 1; an insert where k1 or k2 is
\* already in use never raises len().
C7_SizeAccounting ==
    /\ call.op = "new" => len(map) = 0
    /\ IsInsert =>
          IF ~InUse1(pre, ck1) /\ ~InUse2(pre, ck2)
          THEN len(map) = len(pre) + 1
          ELSE len(map) <= len(pre)

\* an overwrite of one key of a map of two pairs, which still holds two pairs
C7_Witness ==
    /\ IsInsert
    /\ InUse2(pre, ck2) /\ ~InUse1(pre, ck1)
    /\ len(pre) = 2
    /\ len(map) = 2

\* C8: len() reads the forward table only, yet the forward and the reverse
\* table always hold the same number of entries, which is the number of pairs
\* counted from either table.
C8_LenBothTables ==
    /\ HLen(left_to_right) = HLen(right_to_left)
    /\ len(map) = Cardinality({p \in Pairs : get2(map, p[1]) = Some(p[2])})
    /\ len(map) = Cardinality({p \in Pairs : get1(map, p[2]) = Some(p[1])})

\* an insert that collided with two pairs has shrunk both tables to one entry
C8_Witness ==
    /\ IsInsert
    /\ len(pre) = 2
    /\ HLen(left_to_right) = 1
    /\ HLen(right_to_left) = 1

\* everything a caller can observe of m: len and every lookup
Observe(m) ==
    [len |-> len(m),
     get1 |-> [b \in K2 |-> get1(m, b)],
     get2 |-> [a \in K1 |-> get2(m, a)]]

\* C9: idempotent re-insert.  An insert of a pair that is already present
\* leaves len() and the result of every lookup unchanged; hence, whatever
\* the map was before an insert, the same insert once more is not observable.
C9_IdempotentReinsert ==
    /\ (IsInsert /\ Present(pre, ck1, ck2)) => Observe(map) = Observe(pre)
    /\ IsInsert => Observe(insert(map, ck1, ck2, inserts)) = Observe(map)

\* a present pair was inserted again into a map that holds another pair too
C9_Witness ==
    /\ IsInsert
    /\ Present(pre, ck1, ck2)
    /\ Present(map, ck1, ck2)
    /\ len(pre) = 2

\* insert applied to each pair of s in sequence order, the last pair last
RECURSIVE InsertEach(_, _, _)
InsertEach(m, s, n) ==
    IF Len(s) = 0 THEN m
    ELSE insert(InsertEach(m, SubSeq(s, 1, Len(s) - 1), n),
                s[Len(s)][1], s[Len(s)][2], n + Len(s) - 1)

\* two pairs that differ and share their first or their second key
Clash(p, q) == p # q /\ (p[1] = q[1] \/ p[2] = q[2])

\* C10: extend composition.  extend(s) leaves exactly the tables that insert
\* on each pair of s in sequence order leaves; a later pair of s overrides an
\* earlier pair it shares a key with; extend of the empty sequence changes
\* nothing.
C10_ExtendComposition ==
    call.op = "extend" =>
        LET s == call.args
        IN  /\ map = InsertEach(pre, s, inserts - Len(s))
            /\ s = <<>> => map = pre
            /\ \A i, j \in 1..Len(s) :
                  (i < j /\ Clash(s[i], s[j]) /\ \A l \in (j+1)..Len(s) : ~Clash(s[j], s[l]))
                      => /\ Present(map, s[j][1], s[j][2])
                         /\ (\A l \in (j+1)..Len(s) : s[l] # s[i])
                                => ~Present(map, s[i][1], s[i][2])

\* extend of two clashing pairs on a map that held a pair already
C10_Witness ==
    /\ call.op = "extend"
    /\ Len(call.args) = 2
    /\ Clash(call.args[1], call.args[2])
    /\ len(pre) >= 1
    /\ Present(map, call.args[2][1], call.args[2][2])

\* the key of the last call, when it was a lookup through a view
ckey == call.args[1]

\* C11: view equivalence.  The forward view's get(k1) is the map's get2(k1),
\* the reverse view's get(k2) is the map's get1(k2), and for a key that is
\* present view[k] is that same value.
C11_ViewEquivalence ==
    /\ call.op = "LeftMap::get" => ret = Ok(get2(map, ckey))
    /\ call.op = "RightMap::get" => ret = Ok(get1(map, ckey))
    /\ (call.op = "LeftMap::index" /\ get2(map, ckey) # None)
          => ret.ok /\ Some(ret.v) = get2(map, ckey)
    /\ (call.op = "RightMap::index" /\ get1(map, ckey) # None)
          => ret.ok /\ Some(ret.v) = get1(map, ckey)
    /\ call.op \in {"LeftMap::get", "RightMap::get", "LeftMap::index", "RightMap::index"}
          => map = pre

\* the forward view was indexed with a first key that has a partner
C11_Witness ==
    /\ call.op = "LeftMap::index"
    /\ len(map) = 2
    /\ ret.ok
    /\ get2(map, ckey) = Some(ret.v)

\* C12: indexed access on a view panics exactly when get on that view gives
\* None for the key; nothing else panics, and get reports a missing key as
\* None.
C12_IndexPanics ==
    /\ call.op = "LeftMap::index"
          => (ret = Panic <=> LeftMap_get(as_map(map), ckey) = None)
    /\ call.op = "RightMap::index"
          => (ret = Panic <=> RightMap_get(as_inv_map(map), ckey) = None)
    /\ ret = Panic => call.op \in {"LeftMap::index", "RightMap::index"}
    /\ (call.op = "LeftMap::get" /\ ~InUse1(map, ckey)) => ret = Ok(None)
    /\ (call.op = "RightMap::get" /\ ~InUse2(map, ckey)) => ret = Ok(None)

\* the reverse view was indexed with a second key that lost its partner
C12_Witness ==
    /\ call.op = "RightMap::index"
    /\ ret = Panic
    /\ \E i \in 1..Len(hist) : hist[i][2] = ckey
    /\ len(map) >= 1

\* C13: frame of insert.  insert(k1, k2) changes only associations that
\* involve k1 or k2: a pair (a, b) with a # k1 and b # k2 is present after
\* the insert exactly when it was present before, in both tables.
C13_InsertFrame ==
    IsInsert =>
        \A a \in K1 \ {ck1}, b \in K2 \ {ck2} :
            /\ Present(map, a, b) <=> Present(pre, a, b)
            /\ get2(map, a) = Some(b) <=> get2(pre, a) = Some(b)
            /\ get1(map, b) = Some(a) <=> get1(pre, b) = Some(a)

\* a pair stayed while the insert took the second key of another pair
C13_Witness ==
    /\ IsInsert
    /\ InUse2(pre, ck2)
    /\ \E a \in K1 \ {ck1}, b \in K2 \ {ck2} : Present(pre, a, b) /\ Present(map, a, b)

\* C14: shared storage.  For every present pair the K1 object that is the
\* forward table's key is the same allocation as the K1 object that is the
\* reverse table's value, and the K2 object that is the reverse table's key
\* is the same allocation as the K2 object that is the forward table's value.
C14_SharedStorage ==
    \A e \in left_to_right :
        \A f \in right_to_left :
            f.key.val = e.value.val =>
                /\ e.key.ptr = f.value.ptr
                /\ f.key.ptr = e.value.ptr

\* the map inside the last insert, after lines 76-78 and after lines 80-82
AfterStep1 == Step1(pre, ck1, ck2)
AfterStep2 == Step2(AfterStep1, ck1, ck2)

\* the pairs of the map before the insert that share a key with the new pair
Sharing == {p \in Pairs : Present(pre, p[1], p[2]) /\ (p[1] = ck1 \/ p[2] = ck2)}

\* C15 as claimed: within insert(k1, k2) every existing pair that shares k1 or
\* k2 with the new pair has both its forward entry and its reverse entry
\* deleted before the new pair is installed.
C15_DeleteThenInstall ==
    IsInsert =>
        \A p \in Sharing :
            /\ HGet(AfterStep2.left_to_right, p[1]) = None
            /\ HGet(AfterStep2.right_to_left, p[2]) = None

\* C15 as amended: before the new pair is installed, an existing pair
\* (k1', k2) with k1' # k1 has lost its forward entry only, an existing pair
\* (k1, k2') with k2' # k2 has lost its reverse entry only, and the pair
\* (k1, k2) itself has lost its forward entry only; the entries reverse[k2]
\* and forward[k1] that are left are overwritten by the install, not deleted.
C15_DeleteOneEntryThenOverwrite ==
    IsInsert =>
        /\ \A p \in Sharing :
              IF p[2] = ck2
              THEN /\ HGet(AfterStep2.left_to_right, p[1]) = None
                   /\ MapDeref(HGet(AfterStep2.right_to_left, p[2])) = Some(p[1])
              ELSE /\ HGet(AfterStep2.right_to_left, p[2]) = None
                   /\ MapDeref(HGet(AfterStep2.left_to_right, p[1])) = Some(p[2])
        /\ map = Step3(AfterStep2, ck1, ck2, inserts - 1)
        /\ Present(map, ck1, ck2)

\* both keys of the inserted pair had other partners before the insert
C15_Witness ==
    /\ IsInsert
    /\ Cardinality(Sharing) = 2
    /\ HGet(AfterStep2.right_to_left, ck2) # None
    /\ HGet(AfterStep2.left_to_right, ck1) # None

\* C16: step order inside insert(k1, k2).  Step 1 removes only the forward
\* entry of the first key that held k2 and leaves reverse[k2] in place until
\* step 3 overwrites it; step 2 looks k1 up in the forward table as step 1
\* left it and removes only the reverse entry found there, never reverse[k2];
\* when (k1, k2) is already present step 1 removes forward[k1], step 2 finds
\* nothing and removes nothing, and step 3 installs the pair again.
C16_StepOrder ==
    IsInsert =>
        /\ AfterStep1.right_to_left = pre.right_to_left
        /\ \A e \in pre.left_to_right \ AfterStep1.left_to_right :
              Some(e.key.val) = get1(pre, ck2)
        /\ \A a \in K1 : get1(pre, ck2) = Some(a) => get2(AfterStep1, a) = None
        /\ AfterStep2.left_to_right = AfterStep1.left_to_right
        /\ \A f \in AfterStep1.right_to_left \ AfterStep2.right_to_left :
              Some(f.key.val) = get2(AfterStep1, ck1)
        /\ \A b \in K2 : get2(AfterStep1, ck1) = Some(b) => get1(AfterStep2, b) = None
        /\ HGet(AfterStep2.right_to_left, ck2) = HGet(pre.right_to_left, ck2)
        /\ Present(pre, ck1, ck2) =>
              /\ get2(AfterStep1, ck1) = None
              /\ AfterStep2 = AfterStep1
        /\ map = Step3(AfterStep2, ck1, ck2, inserts - 1)
        /\ Present(map, ck1, ck2)

\* a present pair was inserted again: step 2 found nothing, reverse[k2] stayed
C16_Witness ==
    /\ IsInsert
    /\ Present(pre, ck1, ck2)
    /\ get2(AfterStep1, ck1) = None
    /\ get1(AfterStep2, ck2) = Some(ck1)

\* the last index of hist whose pair has first key a (second key b), 0 if none
Max(S) == CHOOSE x \in S : \A y \in S : y <= x
LastWith1(a) == Max({0} \cup {i \in 1..Len(hist) : hist[i][1] = a})
LastWith2(b) == Max({0} \cup {i \in 1..Len(hist) : hist[i][2] = b})

\* C17: last writer wins.  After the pairs of hist were inserted into an
\* empty map, (a, b) is present exactly when a and b both occur in hist and
\* the last pair with first key a is the last pair with second key b (so a
\* key's partner, if any, is the other key of the last pair that used it); the
\* last pair inserted is always present.
C17_LastWriterWins ==
    /\ \A a \in K1 :
          LET i == LastWith1(a)
          IN  get2(map, a) = IF i # 0 /\ LastWith2(hist[i][2]) = i
                             THEN Some(hist[i][2]) ELSE None
    /\ \A b \in K2 :
          LET j == LastWith2(b)
          IN  get1(map, b) = IF j # 0 /\ LastWith1(hist[j][1]) = j
                             THEN Some(hist[j][1]) ELSE None
    /\ hist # <<>> => Present(map, hist[Len(hist)][1], hist[Len(hist)][2])

\* of three pairs inserted the first is still there and the second is not
C17_Witness ==
    /\ Len(hist) = 3
    /\ Present(map, hist[1][1], hist[1][2])
    /\ ~Present(map, hist[2][1], hist[2][2])
    /\ len(map) = 2

\* the pairs that the last insert made absent
Removed == {p \in Pairs : Present(pre, p[1], p[2]) /\ ~Present(map, p[1], p[2])}

\* C18: exact size change.  insert(k1, k2) changes len() by +1 when neither
\* key is in use, by 0 when exactly one key is in use or (k1, k2) itself is
\* present, by -1 when k1 and k2 are in use in two different pairs; it never
\* changes len() by more than 1 nor removes more than two pairs.
C18_ExactSizeChange ==
    IsInsert =>
        LET u1 == InUse1(pre, ck1)
            u2 == InUse2(pre, ck2)
            same == Present(pre, ck1, ck2)
            delta == len(map) - len(pre)
        IN  /\ (~u1 /\ ~u2) => delta = 1
            /\ ((u1 # u2) \/ same) => delta = 0
            /\ (u1 /\ u2 /\ ~same) => delta = -1
            /\ delta \in {-1, 0, 1}
            /\ Cardinality(Removed) <= 2

\* the insert joined the keys of two pairs and made the map one pair smaller
C18_Witness ==
    /\ IsInsert
    /\ InUse1(pre, ck1) /\ InUse2(pre, ck2) /\ ~Present(pre, ck1, ck2)
    /\ len(map) = len(pre) - 1
    /\ Cardinality(Removed) = 2

\* C19: key-disjoint inserts commute.  For (a, b) and (c, d) with a # c and
\* b # d, insert(a, b) then insert(c, d) leaves the same lookups and the same
\* len() as insert(c, d) then insert(a, b), from any reachable state.
C19_DisjointInsertsCommute ==
    IsInsert =>
        \A c \in K1 \ {ck1}, d \in K2 \ {ck2} :
            Observe(insert(map, c, d, inserts))
                = Observe(insert(insert(pre, c, d, inserts - 1), ck1, ck2, inserts))

\* (a, b) was inserted where (a, d) and (c, b) were present
C19_Witness ==
    /\ IsInsert
    /\ \E c \in K1 \ {ck1}, d \in K2 \ {ck2} :
          /\ Present(pre, ck1, d)
          /\ Present(pre, c, ck2)
          /\ len(insert(map, c, d, inserts)) = 2

====
